---- MODULE Spec2Model ----
(***************************************************************************)
(* A model of mc-rcon's RconClient (src/src/lib.rs): one session over one  *)
(* TCP stream, its identifier counter and logged-in flag, the log_in and   *)
(* send_command calls built on the private send, and an RCON server that   *)
(* may put any packet on the stream.                                       *)
(*                                                                         *)
(* A payload is a byte string kept run-length encoded: a sequence of runs  *)
(* [b |-> byte, n |-> count].  Appending byte strings is Cat, the length   *)
(* is the sum of the counts.  Runs are never empty and neighbouring runs    *)
(* hold different bytes, so equal byte strings are equal sequences.        *)
(***************************************************************************)
EXTENDS Integers, Sequences, FiniteSets, TLC

\* ------------------------------------------------------------ bounds
\* calls the client program makes on the session
MaxCalls == 3
\* packets the server puts on the stream over the session's lifetime
MaxFrames == 4
\* packets waiting on the stream, not yet read by the client
MaxQueue == 1
\* identifier allocations started in a run of the allocator
MaxAllocs == 8
\* packets an answering server sends for one request
MaxAnswers == 2
\* log_in calls each of two threads makes on the shared session
MaxLogins == 2

\* ------------------------------------------------- program constants
MAX_OUTGOING_PAYLOAD_LEN == 1446
MAX_INCOMING_PAYLOAD_LEN == 4096
HEADER_LEN == 10
LOGIN_TYPE == 3
COMMAND_TYPE == 2

\* the range of i32, the type of next_id and of the ids on the wire
I32Max == 2147483647
I32Min == -I32Max - 1

\* n + 1 in i32 wrapping arithmetic, as AtomicI32::fetch_add(1) stores it
WrapInc(n) == IF n = I32Max THEN I32Min ELSE n + 1

\* ------------------------------------------------------ byte strings
Run(b, n) == IF n = 0 THEN <<>> ELSE <<[b |-> b, n |-> n]>>

\* the byte string a followed by the byte string b
Cat(a, b) ==
    IF a = <<>> THEN b
    ELSE IF b = <<>> THEN a
    ELSE IF a[Len(a)].b = b[1].b
    THEN SubSeq(a, 1, Len(a) - 1)
         \o <<[b |-> b[1].b, n |-> a[Len(a)].n + b[1].n]>>
         \o Tail(b)
    ELSE a \o b

RECURSIVE BytesLen(_)
BytesLen(p) == IF p = <<>> THEN 0 ELSE Head(p).n + BytesLen(Tail(p))

\* the bytes "seed"
CAP_COMMAND == <<[b |-> 115, n |-> 1], [b |-> 101, n |-> 2], [b |-> 100, n |-> 1]>>

\* String::from_utf8 succeeds: over the bytes the model uses (ASCII letters
\* and 0xFF) a byte string is UTF-8 exactly when it holds no 0xFF.
FromUtf8Ok(buf) == \A i \in 1..Len(buf) : buf[i].b < 128

\* ------------------------------------------------------ packet kinds
PacketKinds == {"LogInPacket", "CommandPacket"}

ACCEPTS_LONG_RESPONSES(k) == k = "CommandPacket"

TYPE(k) == IF k = "LogInPacket" THEN LOGIN_TYPE ELSE COMMAND_TYPE

\* the packet send builds in out_buf / cap_buf
Packet(id, type, payload) ==
    [len |-> HEADER_LEN + BytesLen(payload), id |-> id, type |-> type, payload |-> payload]

\* ------------------------------------------------------------- state
VARIABLES
    next_id,     \* RconClient.next_id
    logged_in,   \* RconClient.logged_in
    out,         \* packets the client has written to the stream, in order
    inq,         \* packets the server has written and the client has not read yet
    closed,      \* the server has closed the connection
    pc,          \* where the client is: idle, read_first, read_loop, panicked
    frame,       \* the locals of the send in progress (or of the last one)
    call,        \* the call in progress, or the last one: what was asked, what it read
    result,      \* what the last finished call returned
    ncalls,      \* calls started so far
    ok_logins,   \* log_in calls that have returned Ok so far
    nsent,       \* packets the server has sent so far
    alloc,       \* threads inside get_next_id, and the ids it has handed out
    srv,         \* the answering server: the request it answers next, packets sent for it
    thr,         \* two threads calling log_in on the shared session: where each is
    wire         \* one packet as bytes: written by send, read back by send's read steps

\* what the calls of one thread on the session leave alone
aux == <<alloc, srv, thr, wire>>

vars ==
    <<next_id, logged_in, out, inq, closed, pc, frame, call, result, ncalls, ok_logins,
      nsent, alloc, srv, thr, wire>>

\* ------------------------------------------------- the pure parts of the code
\* RconClient::is_logged_in
is_logged_in == logged_in

\* a fetch_add whose store is lost
fetch_add_lost(n) == [old |-> n, new |-> n]

\* self.next_id.fetch_add(1, SeqCst) on a counter holding n: the value
\* returned and the value stored, in one atomic step
fetch_add(n) == [old |-> n, new |-> WrapInc(n)]

\* an allocator that does not skip
skips_never(id) == FALSE

\* if id == -1: the id get_next_id throws away
skips(id) == id = -1

\* RconClient::get_next_id in single-threaded use: the id handed out and the
\* counter afterwards (one fetch_add, and a second one when the first gave -1)
get_next_id(n) ==
    LET first == fetch_add(n)
        second == fetch_add(first.new)
    IN
    IF skips(first.old)
    THEN [id |-> second.old, next |-> second.new]
    ELSE [id |-> first.old, next |-> first.new]

\* no length check at all
PayloadTooLong_never(payload) == FALSE

\* an off-by-one length check
PayloadTooLong_strict(payload) == BytesLen(payload) >= MAX_OUTGOING_PAYLOAD_LEN

\* send's length check on the outgoing payload
PayloadTooLong(payload) == BytesLen(payload) > MAX_OUTGOING_PAYLOAD_LEN

\* usize::try_from(in_len).expect(..) - HEADER_LEN and vec![0; payload_len]:
\* a negative length fails the conversion; a length in 0..9 overflows the
\* subtraction (a panic in a debug build, and in a release build a wrapped
\* length above isize::MAX that vec! refuses with a panic).  Every build panics.
ReadPanics(in_len) == in_len < HEADER_LEN

\* a dispatch that takes every id but -1 for the id sent
GoodAuth_unchecked(in_id, out_id) == IF in_id = -1 THEN "false" ELSE "true"

\* the dispatch on the first response's id
GoodAuth(in_id, out_id) ==
    IF in_id = -1 THEN "false"
    ELSE IF in_id = out_id THEN "true"
    ELSE "invalid"

\* a probe condition that needs more than the cap
LongResponse_above(k, payload_len) ==
    ACCEPTS_LONG_RESPONSES(k) /\ payload_len > MAX_INCOMING_PAYLOAD_LEN

\* the condition under which send writes the probe and enters the loop
LongResponse(k, payload_len) ==
    ACCEPTS_LONG_RESPONSES(k) /\ payload_len >= MAX_INCOMING_PAYLOAD_LEN

\* the dispatch on a packet read in the loop
LoopStep(inner_in_id, cap_id, in_id) ==
    IF inner_in_id = cap_id THEN "break"
    ELSE IF inner_in_id = in_id THEN "append"
    ELSE IF inner_in_id = -1 THEN "deauthenticated"
    ELSE "invalid"

\* a fragment put in front of the buffer instead of behind it
append_front(payload_buf, inner_payload_buf) == Cat(inner_payload_buf, payload_buf)

\* payload_buf.append(&mut inner_payload_buf)
append(payload_buf, inner_payload_buf) == Cat(payload_buf, inner_payload_buf)

\* what send returns: a SendResponse, a SendError, or a panic
SendOk(good_auth, payload) ==
    [res |-> "Ok", err |-> "", good_auth |-> good_auth, payload |-> payload]
SendErr(e) == [res |-> "Err", err |-> e, good_auth |-> FALSE, payload |-> <<>>]
SendPanic(m) == [res |-> "Panic", err |-> m, good_auth |-> FALSE, payload |-> <<>>]

\* the end of send: String::from_utf8(payload_buf).expect(..), then Ok
SendReturn(good_auth, payload_buf) ==
    IF FromUtf8Ok(payload_buf)
    THEN SendOk(good_auth, payload_buf)
    ELSE SendPanic("response payload is not ASCII")

\* From<SendError> for LogInError / for CommandError
LogInErrorFrom(e) == IF e = "PayloadTooLong" THEN "PasswordTooLong" ELSE e
CommandErrorFrom(e) == IF e = "PayloadTooLong" THEN "CommandTooLong" ELSE e

Failed(op, res, err) == [op |-> op, res |-> res, err |-> err, payload |-> <<>>]

\* a send_log_in that does not look at good_auth
send_log_in_any(sr) ==
    IF sr.res = "Ok"
    THEN [op |-> "log_in", res |-> "Ok", err |-> "", payload |-> <<>>]
    ELSE Failed("log_in", sr.res, LogInErrorFrom(sr.err))

\* send_log_in once send has returned sr
send_log_in(sr) ==
    IF sr.res = "Ok"
    THEN IF sr.good_auth
         THEN [op |-> "log_in", res |-> "Ok", err |-> "", payload |-> <<>>]
         ELSE Failed("log_in", "Err", "BadPassword")
    ELSE Failed("log_in", sr.res, LogInErrorFrom(sr.err))

\* send_command once send has returned sr
send_command(sr) ==
    IF sr.res = "Ok"
    THEN IF sr.good_auth
         THEN [op |-> "send_command", res |-> "Ok", err |-> "", payload |-> sr.payload]
         ELSE Failed("send_command", "Err", "NotLoggedIn")
    ELSE Failed("send_command", sr.res, CommandErrorFrom(sr.err))

\* a flag cleared when the server answers a command with id -1
log_in_store_reset(r, cur) ==
    IF r.op = "log_in" /\ r.res = "Ok" THEN TRUE
    ELSE IF r.op = "send_command" /\ r.err = "NotLoggedIn" THEN FALSE
    ELSE cur

\* log_in: self.send_log_in(password)?; self.logged_in.store(true)
log_in_store(r, cur) == IF r.op = "log_in" /\ r.res = "Ok" THEN TRUE ELSE cur

\* stream.write_all / flush: on an open connection the write is accepted; once
\* the peer has closed, the write may still be accepted or fail with an error
WriteOutcomes == IF closed THEN {TRUE, FALSE} ELSE {TRUE}

\* ------------------------------------------------------------ inputs
\* passwords and commands the caller passes
Args == {Run(97, 4), Run(97, 1446), Run(97, 1447)}

\* payloads the server sends: short text, one below the cap, the cap, non-text
InPayloads == {Run(99, 5), Run(98, 4095), Run(98, 4096), Run(255, 1)}

\* ids the server answers with: the failure id, the ids of the packets the
\* current (or last) call wrote, and an id no request carries.  The id of an
\* earlier call's packet is, to every comparison the client makes, one more
\* id that is neither -1 nor an id of the call in progress.
ServerIds == {-1, 77} \cup {out[i].id : i \in (call.out0 + 1)..Len(out)}

\* length fields below the header length
BadLens == {-1, 3}

\* what the server may put on the stream: packets whose length field covers
\* their payload, and headers whose length field is below the header length
ServerFrames ==
    {[len |-> HEADER_LEN + BytesLen(p), id |-> i, payload |-> p] :
        i \in ServerIds, p \in InPayloads}
    \cup {[len |-> l, id |-> -1, payload |-> <<>>] : l \in BadLens}

NoFrame ==
    [kind |-> "LogInPacket", out_id |-> 0, in_id |-> 0, cap_id |-> 0,
     good_auth |-> FALSE, payload_buf |-> <<>>]

NoCall == [op |-> "none", arg |-> <<>>, auth0 |-> FALSE, out0 |-> 0, reads |-> <<>>]

NoResult == [op |-> "none", res |-> "none", err |-> "", payload |-> <<>>]

\* threads that share the session and call log_in on it
LoginThreads == {1, 2}

\* a thread outside log_in: calls made, the password and the id of the call in
\* progress, what its last call returned
NoThread == [pc |-> "idle", n |-> 0, password |-> <<>>, out_id |-> 0, res |-> NoResult]

\* no packet on the wire yet
NoWire ==
    [step |-> "none", id |-> 0, kind |-> "LogInPacket", payload |-> <<>>, bytes |-> <<>>,
     rest |-> <<>>, in_len |-> 0, in_id |-> 0, payload_buf |-> <<>>]

\* threads that may be inside get_next_id
AllocThreads == {1, 2}

\* no thread inside get_next_id; hist is the ids handed out before the run
\* starts, as a sequence of ranges lo..hi in the order they were handed out
NoAlloc(hist) ==
    [pc |-> [t \in AllocThreads |-> "idle"], ids |-> <<>>, hist |-> hist,
     wrapped |-> FALSE, n |-> 0]

\* ------------------------------------------------------------- Init
\* the variables of the session and of its one caller, as connect leaves them
SessionInit ==
    /\ logged_in = FALSE
    /\ out = <<>>
    /\ inq = <<>>
    /\ closed = FALSE
    /\ pc = "idle"
    /\ frame = NoFrame
    /\ call = NoCall
    /\ result = NoResult
    /\ ncalls = 0
    /\ ok_logins = 0
    /\ nsent = 0
    /\ srv = [pos |-> 1, cnt |-> 0]
    /\ thr = [t \in LoginThreads |-> NoThread]

\* RconClient::connect
Init ==
    /\ next_id = 0
    /\ alloc = NoAlloc(<<>>)
    /\ wire = NoWire
    /\ SessionInit

\* ---------------------------------------------------------- actions
\* a call returns r to its caller (or unwinds with a panic); log_in stores
\* the flag when it returns Ok
Finish(r) ==
    /\ result' = r
    /\ logged_in' = log_in_store(r, logged_in)
    /\ pc' = IF r.res = "Panic" THEN "panicked" ELSE "idle"
    /\ ok_logins' = IF r.op = "log_in" /\ r.res = "Ok" THEN ok_logins + 1 ELSE ok_logins

Convert(k, sr) == IF k = "LogInPacket" THEN send_log_in(sr) ELSE send_command(sr)

\* send, from its entry to the first blocking read: the length check, the id,
\* the packet written in one write_all
SendBegin(k, payload) ==
    IF PayloadTooLong(payload)
    THEN /\ Finish(Convert(k, SendErr("PayloadTooLong")))
         /\ frame' = NoFrame
         /\ UNCHANGED <<next_id, out>>
    ELSE LET r == get_next_id(next_id) IN
         /\ next_id' = r.next
         /\ frame' = [NoFrame EXCEPT !.kind = k, !.out_id = r.id]
         /\ \E ok \in WriteOutcomes :
               IF ok
               THEN /\ out' = Append(out, Packet(r.id, TYPE(k), payload))
                    /\ pc' = "read_first"
                    /\ UNCHANGED <<result, logged_in, ok_logins>>
               ELSE /\ Finish(Convert(k, SendErr("IO")))
                    /\ out' = out

\* the checks left out
send_log_in_refuses_never == FALSE
send_command_refuses_never == FALSE

\* the already-logged-in check of send_log_in
send_log_in_refuses == is_logged_in

\* the not-logged-in check of send_command
send_command_refuses == ~is_logged_in

StartCall(op, arg) ==
    /\ pc = "idle"
    /\ ncalls < MaxCalls
    /\ ncalls' = ncalls + 1
    /\ call' = [op |-> op, arg |-> arg, auth0 |-> logged_in, out0 |-> Len(out),
                reads |-> <<>>]

\* client.log_in(password)
LogIn ==
    \E password \in Args :
        /\ StartCall("log_in", password)
        /\ IF send_log_in_refuses
           THEN /\ Finish(Failed("log_in", "Err", "AlreadyLoggedIn"))
                /\ frame' = NoFrame
                /\ UNCHANGED <<next_id, out>>
           ELSE SendBegin("LogInPacket", password)
        /\ UNCHANGED <<inq, closed, nsent>>
        /\ UNCHANGED aux

\* client.send_command(command)
SendCommand ==
    \E command \in Args :
        /\ StartCall("send_command", command)
        /\ IF send_command_refuses
           THEN /\ Finish(Failed("send_command", "Err", "NotLoggedIn"))
                /\ frame' = NoFrame
                /\ UNCHANGED <<next_id, out>>
           ELSE SendBegin("CommandPacket", command)
        /\ UNCHANGED <<inq, closed, nsent>>
        /\ UNCHANGED aux

\* send, from the first response to the next blocking read or to its return
ReadFirst ==
    /\ pc = "read_first"
    /\ UNCHANGED <<closed, ncalls, nsent>>
    /\ UNCHANGED aux
    /\ IF inq = <<>>
       THEN \* read_exact fails on the closed connection; on an open one it blocks
            /\ closed
            /\ Finish(Convert(frame.kind, SendErr("IO")))
            /\ UNCHANGED <<next_id, out, inq, frame, call>>
       ELSE LET f == Head(inq)
                payload_len == f.len - HEADER_LEN
                ga == GoodAuth(f.id, frame.out_id)
                cap == get_next_id(next_id)
            IN
            /\ inq' = Tail(inq)
            /\ IF ReadPanics(f.len)
               THEN /\ Finish(Convert(frame.kind, SendPanic("payload is too long")))
                    /\ UNCHANGED <<next_id, out, frame, call>>
               ELSE
               /\ call' = [call EXCEPT !.reads = Append(@, f)]
               /\ IF ga = "invalid"
                  THEN /\ Finish(Convert(frame.kind, SendErr("IO")))
                       /\ frame' = [frame EXCEPT !.in_id = f.id, !.payload_buf = f.payload]
                       /\ UNCHANGED <<next_id, out>>
                  ELSE IF LongResponse(frame.kind, payload_len)
                  THEN /\ next_id' = cap.next
                       /\ frame' = [frame EXCEPT !.in_id = f.id, !.payload_buf = f.payload,
                                                 !.good_auth = (ga = "true"),
                                                 !.cap_id = cap.id]
                       /\ \E ok \in WriteOutcomes :
                             IF ok
                             THEN /\ out' = Append(out, Packet(cap.id, TYPE(frame.kind), CAP_COMMAND))
                                  /\ pc' = "read_loop"
                                  /\ UNCHANGED <<result, logged_in, ok_logins>>
                             ELSE /\ Finish(Convert(frame.kind, SendErr("IO")))
                                  /\ out' = out
                  ELSE /\ Finish(Convert(frame.kind, SendReturn(ga = "true", f.payload)))
                       /\ frame' = [frame EXCEPT !.in_id = f.id, !.payload_buf = f.payload,
                                                 !.good_auth = (ga = "true")]
                       /\ UNCHANGED <<next_id, out>>

\* one turn of send's loop: a packet read after the probe was written
ReadLoop ==
    /\ pc = "read_loop"
    /\ UNCHANGED <<closed, ncalls, nsent, next_id, out>>
    /\ UNCHANGED aux
    /\ IF inq = <<>>
       THEN /\ closed
            /\ Finish(Convert(frame.kind, SendErr("IO")))
            /\ UNCHANGED <<inq, frame, call>>
       ELSE LET f == Head(inq)
                step == LoopStep(f.id, frame.cap_id, frame.in_id)
            IN
            /\ inq' = Tail(inq)
            /\ IF ReadPanics(f.len)
               THEN /\ Finish(Convert(frame.kind, SendPanic("payload is too long")))
                    /\ UNCHANGED <<frame, call>>
               ELSE
               /\ call' = [call EXCEPT !.reads = Append(@, f)]
               /\ IF step = "break"
                  THEN /\ Finish(Convert(frame.kind, SendReturn(frame.good_auth, frame.payload_buf)))
                       /\ frame' = frame
                  ELSE IF step = "append"
                  THEN /\ frame' = [frame EXCEPT !.payload_buf = append(@, f.payload)]
                       /\ UNCHANGED <<pc, result, logged_in, ok_logins>>
                  ELSE /\ Finish(Convert(frame.kind, SendErr("IO")))
                       /\ frame' = frame

\* the server writes a packet to the stream
ServerSend ==
    /\ ~closed
    /\ nsent < MaxFrames
    /\ Len(inq) < MaxQueue
    /\ \E f \in ServerFrames : inq' = Append(inq, f)
    /\ nsent' = nsent + 1
    /\ UNCHANGED <<next_id, logged_in, out, closed, pc, frame, call, result, ncalls,
                   ok_logins>>
    /\ UNCHANGED aux

\* the server closes the connection
ServerClose ==
    /\ ~closed
    /\ closed' = TRUE
    /\ UNCHANGED <<next_id, logged_in, out, inq, pc, frame, call, result, ncalls,
                   ok_logins, nsent>>
    /\ UNCHANGED aux

Next ==
    \/ LogIn
    \/ SendCommand
    \/ ReadFirst
    \/ ReadLoop
    \/ ServerSend
    \/ ServerClose

Spec == Init /\ [][Next]_vars

\* ---------------------------------------------------- an answering server
\* A server that answers the request packets in the order it receives them:
\* for each, at least one and at most MaxAnswers response packets, each with
\* the request's id or -1.  It follows a packet with another one for the same
\* request only after a full payload (4096 bytes) on a command, as the servers
\* that fragment their responses do.  Each packet carries, in req, the position
\* in out of the request it answers.
ServerAnswer ==
    /\ srv.pos <= Len(out)
    /\ Len(inq) < MaxQueue
    /\ \E id \in {out[srv.pos].id, -1}, p \in InPayloads, last \in BOOLEAN :
          /\ last \/ srv.cnt + 1 < MaxAnswers
          /\ last \/ (out[srv.pos].type = COMMAND_TYPE
                       /\ BytesLen(p) >= MAX_INCOMING_PAYLOAD_LEN)
          /\ inq' = Append(inq, [len |-> HEADER_LEN + BytesLen(p), id |-> id,
                                 payload |-> p, req |-> srv.pos])
          /\ srv' = IF last THEN [pos |-> srv.pos + 1, cnt |-> 0]
                            ELSE [pos |-> srv.pos, cnt |-> srv.cnt + 1]
    /\ nsent' = nsent + 1
    /\ UNCHANGED <<next_id, logged_in, out, closed, pc, frame, call, result, ncalls,
                   ok_logins, alloc, thr, wire>>

ServerNext ==
    \/ LogIn
    \/ SendCommand
    \/ ReadFirst
    \/ ReadLoop
    \/ ServerAnswer

SpecServer == Init /\ [][ServerNext]_vars

\* ------------------------------------------- two threads calling log_in
\* RconClient is Sync (a TcpStream and two atomics) and log_in takes &self,
\* so two threads may be inside log_in at once.  A step is one atomic access
\* or one packet written or read; a thread reads a whole packet in one step
\* (the five read_exact calls of one packet are not torn apart here).  The
\* server is the answering server, which does not close the connection, so
\* write_all succeeds.
ThreadFrame == UNCHANGED <<closed, pc, frame, call, result, ncalls, nsent, alloc, srv, wire>>

\* thread t returns r from log_in (or unwinds with a panic)
ThreadReturn(t, r) ==
    thr' = [thr EXCEPT ![t].pc = IF r.res = "Panic" THEN "panicked" ELSE "idle",
                       ![t].res = r]

\* thread t calls log_in(password): the test of the flag in send_log_in
LogInCheck(t) ==
    /\ thr[t].pc = "idle"
    /\ thr[t].n < MaxLogins
    /\ \E password \in Args :
          IF send_log_in_refuses
          THEN thr' = [thr EXCEPT ![t].n = @ + 1, ![t].password = password,
                                  ![t].res = Failed("log_in", "Err", "AlreadyLoggedIn")]
          ELSE thr' = [thr EXCEPT ![t].n = @ + 1, ![t].password = password,
                                  ![t].pc = "send"]
    /\ UNCHANGED <<next_id, logged_in, out, inq, ok_logins>>
    /\ ThreadFrame

\* thread t enters send: the length check, then get_next_id
LogInGetId(t) ==
    /\ thr[t].pc = "send"
    /\ IF PayloadTooLong(thr[t].password)
       THEN /\ ThreadReturn(t, send_log_in(SendErr("PayloadTooLong")))
            /\ next_id' = next_id
       ELSE LET r == get_next_id(next_id) IN
            /\ next_id' = r.next
            /\ thr' = [thr EXCEPT ![t].pc = "write", ![t].out_id = r.id]
    /\ UNCHANGED <<logged_in, out, inq, ok_logins>>
    /\ ThreadFrame

\* thread t writes its Login packet
LogInWrite(t) ==
    /\ thr[t].pc = "write"
    /\ out' = Append(out, Packet(thr[t].out_id, TYPE("LogInPacket"), thr[t].password))
    /\ thr' = [thr EXCEPT ![t].pc = "read"]
    /\ UNCHANGED <<next_id, logged_in, inq, ok_logins>>
    /\ ThreadFrame

\* thread t reads the packet at the head of the stream and send returns
LogInRead(t) ==
    /\ thr[t].pc = "read"
    /\ inq # <<>>
    /\ LET f == Head(inq)
           ga == GoodAuth(f.id, thr[t].out_id)
           r == IF ReadPanics(f.len) THEN send_log_in(SendPanic("payload is too long"))
                ELSE IF ga = "invalid" THEN send_log_in(SendErr("IO"))
                ELSE send_log_in(SendReturn(ga = "true", f.payload))
       IN
       /\ inq' = Tail(inq)
       /\ IF r.res = "Ok"
          THEN thr' = [thr EXCEPT ![t].pc = "store"]
          ELSE ThreadReturn(t, r)
    /\ UNCHANGED <<next_id, logged_in, out, ok_logins>>
    /\ ThreadFrame

\* thread t, back in log_in with Ok from send_log_in, stores the flag
LogInStore(t) ==
    /\ thr[t].pc = "store"
    /\ logged_in' = TRUE
    /\ ok_logins' = ok_logins + 1
    /\ ThreadReturn(t, [op |-> "log_in", res |-> "Ok", err |-> "", payload |-> <<>>])
    /\ UNCHANGED <<next_id, out, inq>>
    /\ ThreadFrame

Login2Next ==
    \/ \E t \in LoginThreads :
          \/ LogInCheck(t)
          \/ LogInGetId(t)
          \/ LogInWrite(t)
          \/ LogInRead(t)
          \/ LogInStore(t)
    \/ ServerAnswer

SpecLogin2 == Init /\ [][Login2Next]_vars

\* ------------------------------------------------------ packets as bytes
\* the byte at offset i (from 0) of the byte string s
RECURSIVE ByteAt(_, _)
ByteAt(s, i) == IF i < Head(s).n THEN Head(s).b ELSE ByteAt(Tail(s), i - Head(s).n)

\* the first n bytes of s, and s without them: what read_exact on a buffer of
\* n bytes takes from the stream and what it leaves
RECURSIVE Take(_, _)
Take(s, n) ==
    IF n = 0 \/ s = <<>> THEN <<>>
    ELSE IF Head(s).n <= n THEN Cat(<<Head(s)>>, Take(Tail(s), n - Head(s).n))
    ELSE <<[b |-> Head(s).b, n |-> n]>>

RECURSIVE Drop(_, _)
Drop(s, n) ==
    IF n = 0 \/ s = <<>> THEN s
    ELSE IF Head(s).n <= n THEN Drop(Tail(s), n - Head(s).n)
    ELSE <<[b |-> Head(s).b, n |-> Head(s).n - n]>> \o Tail(s)

\* the low 31 bits of the two's complement of x, and its four bytes from the
\* least significant up
Low31(x) == IF x < 0 THEN x - I32Min ELSE x
Byte0(x) == Low31(x) % 256
Byte1(x) == (Low31(x) \div 256) % 256
Byte2(x) == (Low31(x) \div 65536) % 256
Byte3(x) == (Low31(x) \div 16777216) + (IF x < 0 THEN 128 ELSE 0)

\* the four bytes most significant first
to_be_bytes(x) ==
    Cat(Run(Byte3(x), 1), Cat(Run(Byte2(x), 1), Cat(Run(Byte1(x), 1), Run(Byte0(x), 1))))

\* i32::to_le_bytes
to_le_bytes(x) ==
    Cat(Run(Byte0(x), 1), Cat(Run(Byte1(x), 1), Cat(Run(Byte2(x), 1), Run(Byte3(x), 1))))

\* i32::from_le_bytes on a string of four bytes
from_le_bytes(s) ==
    LET v == (ByteAt(s, 3) % 128) * 16777216 + ByteAt(s, 2) * 65536
             + ByteAt(s, 1) * 256 + ByteAt(s, 0)
    IN IF ByteAt(s, 3) >= 128 THEN v + I32Min ELSE v

\* the bytes send puts in out_buf for the packet pk
out_buf(pk) ==
    Cat(to_le_bytes(pk.len),
        Cat(to_le_bytes(pk.id),
            Cat(to_le_bytes(pk.type),
                Cat(pk.payload, Run(0, 2)))))

\* ids, and payloads (text, with and without zero bytes at their ends; the
\* longest send accepts, and one byte more)
CodecIds ==
    {0, 1, 255, 256, 65536, 16777216, 305419896, I32Max, I32Min, -2, -1}
CodecPayloads ==
    {<<>>, Run(97, 1), Cat(Run(97, 2), Run(0, 1)), Cat(Run(0, 1), Run(97, 1445)),
     Run(98, 1446), Run(97, 1447)}

CodecInit ==
    /\ \E id \in CodecIds, k \in PacketKinds, p \in CodecPayloads :
          wire = [NoWire EXCEPT !.step = "new", !.id = id, !.kind = k, !.payload = p]
    /\ next_id = 0
    /\ alloc = NoAlloc(<<>>)
    /\ SessionInit

CodecFrame ==
    UNCHANGED <<next_id, logged_in, out, inq, closed, pc, frame, call, result, ncalls,
                ok_logins, nsent, alloc, srv, thr>>

\* send's length check, and the packet written to the stream in one write_all
CodecWrite ==
    /\ wire.step = "new"
    /\ IF PayloadTooLong(wire.payload)
       THEN wire' = [wire EXCEPT !.step = "refused"]
       ELSE LET b == out_buf(Packet(wire.id, TYPE(wire.kind), wire.payload)) IN
            wire' = [wire EXCEPT !.step = "written", !.bytes = b, !.rest = b]
    /\ CodecFrame

\* stream.read_exact(&mut in_len_bytes); in_len = i32::from_le_bytes(..)
CodecReadLen ==
    /\ wire.step = "written"
    /\ BytesLen(wire.rest) >= 4
    /\ wire' = [wire EXCEPT !.step = "len", !.in_len = from_le_bytes(Take(wire.rest, 4)),
                            !.rest = Drop(@, 4)]
    /\ CodecFrame

\* stream.read_exact(&mut in_id_bytes); in_id = i32::from_le_bytes(..)
CodecReadId ==
    /\ wire.step = "len"
    /\ BytesLen(wire.rest) >= 4
    /\ wire' = [wire EXCEPT !.step = "id", !.in_id = from_le_bytes(Take(wire.rest, 4)),
                            !.rest = Drop(@, 4)]
    /\ CodecFrame

\* stream.read_exact(&mut [0; I32_LEN]): the type, read and dropped
CodecReadType ==
    /\ wire.step = "id"
    /\ BytesLen(wire.rest) >= 4
    /\ wire' = [wire EXCEPT !.step = "type", !.rest = Drop(@, 4)]
    /\ CodecFrame

\* payload_len = in_len - HEADER_LEN; stream.read_exact(&mut payload_buf)
CodecReadPayload ==
    /\ wire.step = "type"
    /\ IF ReadPanics(wire.in_len)
       THEN wire' = [wire EXCEPT !.step = "panicked"]
       ELSE LET payload_len == wire.in_len - HEADER_LEN IN
            /\ BytesLen(wire.rest) >= payload_len
            /\ wire' = [wire EXCEPT !.step = "payload",
                                    !.payload_buf = Take(wire.rest, payload_len),
                                    !.rest = Drop(@, payload_len)]
    /\ CodecFrame

\* stream.read_exact(&mut [0; 2]): the terminator and the padding
CodecReadPad ==
    /\ wire.step = "payload"
    /\ BytesLen(wire.rest) >= 2
    /\ wire' = [wire EXCEPT !.step = "done", !.rest = Drop(@, 2)]
    /\ CodecFrame

CodecNext ==
    \/ CodecWrite
    \/ CodecReadLen
    \/ CodecReadId
    \/ CodecReadType
    \/ CodecReadPayload
    \/ CodecReadPad

SpecCodec == CodecInit /\ [][CodecNext]_vars

\* ------------------------------------------------ the identifier allocator
\* The session's counter on its own.  A run starts from the counter of a new
\* session, or from a counter a session reaches by allocating one id after the
\* other from 0 (near the top of i32, near its bottom, near -1), together with
\* the ids that were handed out on the way there.
AllocStarts ==
    {0, 1, 2, 3} \cup {I32Max - 2, I32Max - 1, I32Max} \cup {I32Min, I32Min + 1}
    \cup {-5, -4, -3, -2, -1}

\* the ids handed out by the allocations that take the counter from 0 to k
HistoryTo(k) ==
    IF k = 0 THEN <<>>
    ELSE IF k > 0 THEN <<[lo |-> 0, hi |-> k - 1]>>
    ELSE IF k = I32Min THEN <<[lo |-> 0, hi |-> I32Max]>>
    ELSE <<[lo |-> 0, hi |-> I32Max], [lo |-> I32Min, hi |-> k - 1]>>

AllocInit ==
    \E k \in AllocStarts :
        /\ next_id = k
        /\ alloc = NoAlloc(HistoryTo(k))
        /\ wire = NoWire
        /\ SessionInit

AllocFrame ==
    UNCHANGED <<logged_in, out, inq, closed, pc, frame, call, result, ncalls, ok_logins,
                nsent, srv, thr, wire>>

\* thread t enters get_next_id and does its first fetch_add; it returns the id
\* unless that is the id to skip
FetchFirst(t) ==
    LET f == fetch_add(next_id) IN
    /\ alloc.pc[t] = "idle"
    /\ alloc.n < MaxAllocs
    /\ next_id' = f.new
    /\ alloc' = [alloc EXCEPT
                    !.n = @ + 1,
                    !.wrapped = @ \/ f.old = -1,
                    !.pc[t] = IF skips(f.old) THEN "refetch" ELSE "idle",
                    !.ids = IF skips(f.old) THEN @ ELSE Append(@, f.old)]
    /\ AllocFrame

\* thread t does the second fetch_add and returns what it gives
FetchSecond(t) ==
    LET f == fetch_add(next_id) IN
    /\ alloc.pc[t] = "refetch"
    /\ next_id' = f.new
    /\ alloc' = [alloc EXCEPT
                    !.wrapped = @ \/ f.old = -1,
                    !.pc[t] = "idle",
                    !.ids = Append(@, f.old)]
    /\ AllocFrame

\* one thread allocating
AllocNext1 ==
    \/ FetchFirst(1)
    \/ FetchSecond(1)

SpecAlloc1 == AllocInit /\ [][AllocNext1]_vars

\* several threads allocating on the same session
AllocNext ==
    \E t \in AllocThreads :
        \/ FetchFirst(t)
        \/ FetchSecond(t)

SpecAlloc == AllocInit /\ [][AllocNext]_vars

\* ------------------------------------------------------------ claims
\* the packets the current (or last) call has written, and the id of its request
Wrote == Len(out) - call.out0
SentId == out[call.out0 + 1].id

\* the call named by `call` is over: it returned, or it panicked
Ended == call.op # "none" /\ pc \in {"idle", "panicked"}

\* C1: while no log_in has returned success, a send_command call returns
\* NotLoggedIn on the spot, having written nothing and read nothing, and the
\* stream carries no Command-type packet.
C1_CommandBeforeLogIn ==
    ok_logins = 0 =>
        /\ \A i \in 1..Len(out) : out[i].type # COMMAND_TYPE
        /\ call.op = "send_command" =>
              /\ pc = "idle"
              /\ result = Failed("send_command", "Err", "NotLoggedIn")
              /\ Wrote = 0
              /\ call.reads = <<>>

\* a send_command refused after a log_in attempt that was sent and failed
C1_Witness ==
    /\ ok_logins = 0
    /\ call.op = "send_command"
    /\ result = Failed("send_command", "Err", "NotLoggedIn")
    /\ Len(out) = 1
    /\ out[1].type = LOGIN_TYPE

\* C2: a password (on an unauthenticated session) or a command (on an
\* authenticated one) longer than 1446 bytes is refused with PasswordTooLong /
\* CommandTooLong and nothing is written; one of exactly 1446 bytes is not
\* refused: its packet, with length field 1456, is written to the stream (unless
\* the write itself fails on a connection the server has closed).
C2_PayloadLimit ==
    LET n == BytesLen(call.arg)
        allowed == \/ call.op = "log_in" /\ ~call.auth0
                   \/ call.op = "send_command" /\ call.auth0
        kind == IF call.op = "log_in" THEN "LogInPacket" ELSE "CommandPacket"
    IN
    allowed =>
        /\ n > 1446 =>
              /\ pc = "idle"
              /\ result = Failed(call.op, "Err",
                                 IF call.op = "log_in" THEN "PasswordTooLong"
                                                       ELSE "CommandTooLong")
              /\ Wrote = 0
        /\ n = 1446 =>
              \/ /\ Wrote >= 1
                 /\ out[call.out0 + 1].payload = call.arg
                 /\ out[call.out0 + 1].len = 1456
                 /\ out[call.out0 + 1].type = TYPE(kind)
              \/ /\ closed
                 /\ pc = "idle"
                 /\ result = Failed(call.op, "Err", "IO")
                 /\ Wrote = 0

\* a 1447-byte command refused on a session whose 1446-byte password was sent
C2_Witness ==
    /\ call.op = "send_command"
    /\ call.auth0
    /\ BytesLen(call.arg) = 1447
    /\ result = Failed("send_command", "Err", "CommandTooLong")
    /\ Len(out) = 1
    /\ BytesLen(out[1].payload) = 1446

\* C3: a log_in call made while the session is authenticated returns
\* AlreadyLoggedIn and writes nothing, whatever the password.
C3_AlreadyLoggedIn ==
    (call.op = "log_in" /\ call.auth0) =>
        /\ pc = "idle"
        /\ result = Failed("log_in", "Err", "AlreadyLoggedIn")
        /\ Wrote = 0
        /\ call.reads = <<>>
        /\ logged_in

\* a second log_in, with a password that would be too long, answered AlreadyLoggedIn
C3_Witness ==
    /\ call.op = "log_in"
    /\ call.auth0
    /\ BytesLen(call.arg) = 1447
    /\ result = Failed("log_in", "Err", "AlreadyLoggedIn")

RECURSIVE ConcatPayloads(_)
ConcatPayloads(fs) ==
    IF fs = <<>> THEN <<>> ELSE Cat(Head(fs).payload, ConcatPayloads(Tail(fs)))

\* the call read a first response, then packets with the request's id only, then
\* a packet with the probe's id, and nothing after it
ReassemblyShape ==
    LET n == Len(call.reads) IN
    /\ n >= 2
    /\ Wrote = 2
    /\ call.reads[n].id = out[call.out0 + 2].id
    /\ \A i \in 2..(n - 1) : call.reads[i].id = SentId

C6_ResultWithinCap ==
    (pc = "idle" /\ result.op = "send_command" /\ result.res = "Ok") =>
        BytesLen(result.payload) <= 4096

\* C7 (as claimed): a send_command whose first response carries id -1 writes no
\* probe and reads no further packet, and returns NotLoggedIn; the loop is
\* entered only with a first response that carries the id sent.
C7_NoProbeOnDeauth ==
    /\ (/\ call.op = "send_command"
        /\ Len(call.reads) >= 1
        /\ call.reads[1].id = -1) =>
           /\ Wrote = 1
           /\ Len(call.reads) = 1
           /\ pc = "idle" => result = Failed("send_command", "Err", "NotLoggedIn")
    /\ pc = "read_loop" => frame.in_id = frame.out_id

\* C8 (as claimed): a call whose first response has a payload that is not
\* valid text returns an IO error to its caller.
C8_NonTextIsIoError ==
    (/\ Ended
     /\ Len(call.reads) >= 1
     /\ ~FromUtf8Ok(call.reads[1].payload)) =>
        /\ pc = "idle"
        /\ result = Failed(call.op, "Err", "IO")

C10_FlagMonotone == logged_in <=> ok_logins > 0

\* still logged in after the server answered a command with id -1
C10_Witness ==
    /\ logged_in
    /\ pc = "idle"
    /\ call.op = "send_command"
    /\ Len(call.reads) = 1
    /\ call.reads[1].id = -1
    /\ result = Failed("send_command", "Err", "NotLoggedIn")

\* the id after id in i32 wrapping order
Succ32(id) == IF id = 2147483647 THEN -2147483647 - 1 ELSE id + 1

\* id is one of the ids handed out before the run started
InHistory(id) == \E i \in 1..Len(alloc.hist) : alloc.hist[i].lo <= id /\ id <= alloc.hist[i].hi

\* C11: one thread allocating.  The first id of a session is 0, no id is -1,
\* and every id is the one before it plus 1 in wrapping i32 arithmetic, except
\* that the id after -2 is 0.
C11_IdSequence ==
    LET ids == alloc.ids
        after(id) == IF id = -2 THEN 0 ELSE Succ32(id)
    IN
    /\ (alloc.hist = <<>> /\ ids # <<>>) => ids[1] = 0
    /\ (alloc.hist # <<>> /\ ids # <<>>) =>
          ids[1] = after(alloc.hist[Len(alloc.hist)].hi)
    /\ \A i \in 1..Len(ids) : ids[i] # -1
    /\ \A i \in 1..(Len(ids) - 1) : ids[i + 1] = after(ids[i])

\* the allocator has skipped -1: it handed out -2 and then 0
C11_Witness ==
    \E i \in 1..(Len(alloc.ids) - 1) : alloc.ids[i] = -2 /\ alloc.ids[i + 1] = 0

C13_ProbeIff ==
    /\ Len(call.reads) >= 1 =>
          (Wrote = 2 <=>
              (call.op = "send_command" /\ BytesLen(call.reads[1].payload) >= 4096))
    /\ call.op = "log_in" => Wrote <= 1
    /\ call.op = "send_command" => Wrote <= 2

\* C13 (amended): a call writes a probe only if it is a send_command whose
\* first response payload is at least 4096 bytes long (4095 is not enough),
\* and then it does so exactly when that response's id is the id sent or -1
\* (any other id ends the call first), unless the write of the probe fails on
\* a closed connection.  A log_in writes at most one packet, a send_command at
\* most two.
C13_ProbeRule ==
    LET long == call.op = "send_command" /\ BytesLen(call.reads[1].payload) >= 4096
        passed == call.reads[1].id \in {SentId, -1}
    IN
    /\ Len(call.reads) >= 1 =>
          /\ Wrote = 2 => (long /\ passed)
          /\ (long /\ passed) =>
                \/ /\ Wrote = 2
                   /\ out[call.out0 + 2] = Packet(out[call.out0 + 2].id, 2, CAP_COMMAND)
                \/ /\ closed
                   /\ Wrote = 1
                   /\ pc = "idle"
                   /\ result = Failed("send_command", "Err", "IO")
    /\ call.op = "log_in" => Wrote <= 1
    /\ call.op = "send_command" => Wrote <= 2

\* a send_command that has written its probe after a first response of
\* exactly 4096 bytes
C13_Witness ==
    /\ pc = "read_loop"
    /\ call.op = "send_command"
    /\ Len(call.reads) = 1
    /\ BytesLen(call.reads[1].payload) = 4096
    /\ Wrote = 2

\* C14 (as claimed): in the loop, a packet with id -1 read before the packet
\* with the probe id ends send_command with an IO error: it is the last packet
\* the call reads and its payload is not appended to the buffer.
C14_DeauthInLoopIsFatal ==
    \A i \in 2..Len(call.reads) :
        call.reads[i].id = -1 =>
            /\ i = Len(call.reads)
            /\ pc = "idle"
            /\ result = Failed("send_command", "Err", "IO")
            /\ frame.payload_buf = call.reads[1].payload

\* the call that starts in this step fails a precondition: a log_in on an
\* authenticated session or with a password over 1446 bytes, a send_command
\* on an unauthenticated session or with a command over 1446 bytes
StartsRefused ==
    /\ ncalls' = ncalls + 1
    /\ \/ call'.op = "log_in" /\ (logged_in \/ BytesLen(call'.arg) > 1446)
       \/ call'.op = "send_command" /\ (~logged_in \/ BytesLen(call'.arg) > 1446)

\* C15: a call that fails a precondition returns its error in the same step
\* and leaves the session as it was: the counter, the flag, what has been
\* written to the stream and what waits to be read on it are unchanged, so a
\* later call finds the state it would have found without the failed one.
C15_RefusedCallChangesNothing ==
    [][StartsRefused =>
          /\ UNCHANGED <<next_id, logged_in, out, inq, closed>>
          /\ pc' = "idle"
          /\ result'.res = "Err"
          /\ result'.err \in {"AlreadyLoggedIn", "PasswordTooLong", "NotLoggedIn",
                              "CommandTooLong"}
          /\ call'.reads = <<>>]_vars

\* an over-long command refused on an authenticated session whose counter
\* still stands right after the login's id, with a packet waiting on the stream
C15_Witness ==
    /\ call.op = "send_command"
    /\ call.auth0
    /\ BytesLen(call.arg) = 1447
    /\ result = Failed("send_command", "Err", "CommandTooLong")
    /\ next_id = 1
    /\ Len(out) = 1
    /\ inq # <<>>

\* a call is blocked in a read, nothing waits on the stream, and the server
\* has answered every request in full
WaitsInVain ==
    /\ pc \in {"read_first", "read_loop"}
    /\ inq = <<>>
    /\ srv.pos > Len(out)

\* C16 (as claimed): against the answering server, a call never waits for a
\* packet the server will not send, so every call comes to its end.
C16_NeverWaitsInVain == ~WaitsInVain

\* C17 (as claimed): against the answering server, the packet that waits on
\* the stream when a call is about to read its first response, and the first
\* packet a call has read, answer that call's own request: no response to an
\* earlier request packet is still unread when a new request is written.
C17_FirstReadAnswersOwnRequest ==
    /\ (pc = "read_first" /\ inq # <<>>) => Head(inq).req = call.out0 + 1
    /\ Len(call.reads) >= 1 => call.reads[1].req = call.out0 + 1

\* C19 (as claimed): a response whose length field is below 10 ends the call
\* with an error returned to the caller: no call ends in the panic of the
\* payload-length computation.
C19_ShortLengthIsAnError ==
    ~(result.res = "Panic" /\ result.err = "payload is too long")

\* C18 (as claimed): over the session's lifetime, two threads calling log_in
\* concurrently included, at most one log_in call comes to store true in the
\* flag.
C18_FlagStoredOnce == ok_logins <= 1

\* the bytes of s from offset i (from 0), n of them
SubBytes(s, i, n) == Take(Drop(s, i), n)

\* C20: a packet send writes for a payload of at most 1446 bytes is
\* 4 + 10 + len(payload) bytes: the length 10 + len(payload), the id and the
\* type (2 or 3) as little-endian 32-bit integers, the payload, two zero
\* bytes; and the read steps of send, run on those bytes, stop having
\* consumed all of them with the same id and the same payload.
C20_RoundTrip ==
    LET n == BytesLen(wire.payload) IN
    /\ wire.step \in {"refused", "panicked"} => n > MAX_OUTGOING_PAYLOAD_LEN
    /\ wire.step \notin {"none", "new", "refused"} =>
          /\ n <= MAX_OUTGOING_PAYLOAD_LEN
          /\ BytesLen(wire.bytes) = 4 + 10 + n
          /\ from_le_bytes(SubBytes(wire.bytes, 0, 4)) = 10 + n
          /\ ByteAt(wire.bytes, 0) = (10 + n) % 256
          /\ from_le_bytes(SubBytes(wire.bytes, 4, 4)) = wire.id
          /\ ByteAt(wire.bytes, 4) = wire.id % 256
          /\ ByteAt(wire.bytes, 7) >= 128 <=> wire.id < 0
          /\ from_le_bytes(SubBytes(wire.bytes, 8, 4)) = TYPE(wire.kind)
          /\ ByteAt(wire.bytes, 8) \in {2, 3}
          /\ SubBytes(wire.bytes, 12, n) = wire.payload
          /\ Drop(wire.bytes, 12 + n) = Run(0, 2)
    /\ wire.step = "done" =>
          /\ wire.rest = <<>>
          /\ wire.in_id = wire.id
          /\ wire.payload_buf = wire.payload

\* reached: a packet with a negative id and the longest payload, read back
C20_Witness ==
    /\ wire.step = "done"
    /\ wire.id < -1
    /\ BytesLen(wire.payload) = MAX_OUTGOING_PAYLOAD_LEN

====
